---- MODULE Spec2Model ----
(***************************************************************************)
(* Model of mongodb/sync_nepal.py: NepalMongoDBSync and main().            *)
(*                                                                         *)
(* A writer is one process invocation of main().  Writers share the        *)
(* MongoDB collection nepal_detailed and its indexes; everything else is   *)
(* local to the writer.  A writer takes one step per call that touches the *)
(* world outside the process (file system, storage), so that the calls of  *)
(* two writers interleave as they can between two processes.               *)
(*                                                                         *)
(* Python values are encoded as records [kind, n, s]: kind is one of       *)
(* "missing" (key absent from a dict), "null" (None), "int", "bool",       *)
(* "str"; a str carries its characters in s as a sequence.                 *)
(***************************************************************************)
EXTENDS Integers, Sequences, FiniteSets, TLC

VARIABLES
    input,          \* per writer: environment (MONGODB_URI set?, directory)
    pc,             \* per writer: position in main()
    client,         \* per writer: self.client, [state, closes]
    detailed_file,  \* per writer: result of find_latest_detailed_file
    doc,            \* per writer: the document built by sync_detailed
    success,        \* per writer: return value of sync_detailed
    outcome,        \* per writer: how sync_all ended
    exitCode,       \* per writer: process exit status, -1 while running
    persisted,      \* per writer: replace_one returned without error
    idxNext,        \* per writer: next create_index call of create_indexes
    idxAttempts,    \* per writer: create_index calls made, in order
    idxFailedAt,    \* per writer: position of the failed call, 0 if none
    collection,     \* the documents of nepal_detailed
    indexes,        \* the indexes of nepal_detailed
    applied,        \* writers in the order their replace_one was applied
    clock           \* wall clock read by datetime.now(IST)

vars == <<input, pc, client, detailed_file, doc, success, outcome,
          exitCode, persisted, idxNext, idxAttempts, idxFailedAt, collection,
          indexes, applied, clock>>

\* ------------------------------------------------------------------ bounds
MaxShows == 3

Writers == {1, 2}

\* ----------------------------------------------------------- Python values
Val(k, n, s) == [kind |-> k, n |-> n, s |-> s]
Missing == Val("missing", 0, <<>>)
PyNone == Val("null", 0, <<>>)
IntV(i) == Val("int", i, <<>>)
PyTrue == Val("bool", 1, <<>>)
PyFalse == Val("bool", 0, <<>>)
Str(s) == Val("str", 0, s)

\* bool(v)
Truthy(v) ==
    CASE v.kind = "missing" -> FALSE
      [] v.kind = "null" -> FALSE
      [] v.kind = "int" -> v.n # 0
      [] v.kind = "bool" -> v.n # 0
      [] v.kind = "str" -> v.s # <<>>

\* d.get(k, default)
Get(d, k, default) == IF d[k] = Missing THEN default ELSE d[k]

ShowKeys == {"show_id", "movie_id", "movie_name", "venue", "theatre", "date",
             "time", "seats", "sold", "reserved", "available", "gross",
             "occupancy_percent", "error", "skipped"}

NumericFields == {"seats", "sold", "reserved", "available", "gross",
                  "occupancy_percent"}

RecordKeys == {"show_id", "movie_id", "movie_name", "venue", "theatre",
               "show_date", "show_time", "seats", "sold", "reserved",
               "available", "gross", "occupancy_percent", "error", "skipped"}

\* ------------------------------------------------------------ pure helpers
NotDash(c) == c # "-"

\* format_date_code: date_str.replace("-", "")
format_date_code(date_str) == SelectSeq(date_str, NotDash)

\* f"nepal_{date_code}"
Prefix == <<"n", "e", "p", "a", "l", "_">>

DocId(date_code) == Prefix \o date_code

\* a count of the shows that have a movie_id, duplicates included
unique_movies_list(shows) ==
    Cardinality({j \in 1..Len(shows) :
                   Truthy(Get(shows[j].f, "movie_id", PyNone))})

\* len(set(show.get("movie_id") for show in shows if show.get("movie_id")))
unique_movies(shows) ==
    Cardinality({Get(shows[i].f, "movie_id", PyNone) :
                   i \in {j \in 1..Len(shows) :
                            Truthy(Get(shows[j].f, "movie_id", PyNone))}})

\* the dict literal show_doc and the two conditional flags
show_doc(show) ==
    [k \in RecordKeys |->
        CASE k = "show_date" -> Get(show, "date", PyNone)
          [] k = "show_time" -> Get(show, "time", PyNone)
          [] k \in NumericFields -> Get(show, k, IntV(0))
          [] k = "error" -> IF Truthy(Get(show, "error", PyNone))
                              THEN Get(show, "error", PyNone)
                              ELSE Missing
          [] k = "skipped" -> IF Truthy(Get(show, "skipped", PyNone))
                                THEN PyTrue
                                ELSE Missing
          [] OTHER -> Get(show, k, PyNone)]

\* a loop that inserts each record at the front
RECURSIVE PrependShows(_, _)
PrependShows(shows, acc) ==
    IF shows = <<>>
      THEN acc
      ELSE PrependShows(Tail(shows), <<show_doc(Head(shows).f)>> \o acc)

\* for show in shows: ... doc["shows"].append(show_doc)
RECURSIVE AppendShows(_, _)
AppendShows(shows, acc) ==
    IF shows = <<>>
      THEN acc
      ELSE AppendShows(Tail(shows), Append(acc, show_doc(Head(shows).f)))

\* the dict literal doc, with its shows filled in
MakeDoc(date_code, last_updated, timestamp, shows) ==
    [id |-> DocId(date_code),
     date |-> date_code,
     last_updated |-> last_updated,
     synced_at |-> timestamp,
     total_shows |-> Len(shows),
     total_movies |-> unique_movies(shows),
     shows |-> AppendShows(shows, <<>>)]

NoDoc ==
    [id |-> <<>>, date |-> <<>>, last_updated |-> Missing, synced_at |-> 0,
     total_shows |-> 0, total_movies |-> 0, shows |-> <<>>]

\* ------------------------------------------------------------- file system
\* A directory entry: [stamp, detailed, content]; stamp orders the names,
\* detailed says whether the name matches *_Detailed.json.
NoFile == 0

DetailedStamps(dir) == {e.stamp : e \in {x \in dir.entries : x.detailed}}

\* find_latest_detailed_file: str(path) of the greatest name, or None
find_latest_detailed_file(dir) ==
    IF ~dir.exists
      THEN NoFile
      ELSE IF DetailedStamps(dir) = {}
             THEN NoFile
             ELSE CHOOSE s \in DetailedStamps(dir) :
                    \A t \in DetailedStamps(dir) : t <= s

ContentOf(dir, stamp) ==
    (CHOOSE e \in dir.entries : e.detailed /\ e.stamp = stamp).content

EmptyShow == [k \in ShowKeys |-> Missing]

NoData ==
    [top |-> "null", extra |-> FALSE, date |-> Missing,
     lastUpdated |-> Missing, shows |-> [kind |-> "missing", items |-> <<>>]]

\* load_json: [raised, data]; data = NoData stands for the return value None
load_json(content) ==
    CASE content.status = "ok" -> [raised |-> FALSE, data |-> content.data]
      [] content.status = "enoent" -> [raised |-> FALSE, data |-> NoData]
      [] content.status = "badjson" -> [raised |-> FALSE, data |-> NoData]
      [] OTHER -> [raised |-> TRUE, data |-> NoData]

\* bool(data) for the decoded top-level value
DataTruthy(data) ==
    CASE data.top = "null" -> FALSE
      [] data.top = "array" -> TRUE
      [] data.top = "object" ->
            \/ data.extra
            \/ data.date # Missing
            \/ data.lastUpdated # Missing
            \/ data.shows.kind # "missing"

\* bool(shows) for shows = data.get("shows", [])
ShowsTruthy(shows) ==
    CASE shows.kind = "missing" -> FALSE
      [] shows.kind = "null" -> FALSE
      [] shows.kind = "number" -> TRUE
      [] shows.kind = "list" -> shows.items # <<>>

AllObjects(items) == \A i \in 1..Len(items) : items[i].isobj

Ret(result, d, ticks) == [result |-> result, doc |-> d, ticks |-> ticks]

\* sync_detailed up to the replace_one call: "False" (returns False),
\* "raise" (an exception leaves sync_detailed) or "doc" (doc is built).
\* ticks counts the reads of datetime.now(IST).
sync_detailed_build(content, now) ==
    LET loaded == load_json(content)
        data == loaded.data
        date == Get(data, "date", Str(<<>>))
        date_code == format_date_code(date.s)
        last_updated == Get(data, "lastUpdated", Str(<<>>))
    IN  IF loaded.raised THEN Ret("raise", NoDoc, 0)
        ELSE IF ~DataTruthy(data) THEN Ret("False", NoDoc, 0)
        ELSE IF data.top # "object" THEN Ret("raise", NoDoc, 0)
        ELSE IF ~ShowsTruthy(data.shows) THEN Ret("False", NoDoc, 0)
        ELSE IF date.kind # "str" THEN Ret("raise", NoDoc, 0)
        ELSE IF date_code = <<>> THEN Ret("False", NoDoc, 1)
        ELSE IF data.shows.kind # "list" THEN Ret("raise", NoDoc, 1)
        ELSE IF ~AllObjects(data.shows.items) THEN Ret("raise", NoDoc, 1)
        ELSE Ret("doc",
                 MakeDoc(date_code, last_updated, now, data.shows.items), 1)

\* ----------------------------------------------------------------- storage
Matching(coll, id) == {d \in coll : d.id = id}

\* an insert that never replaces
insert_one(coll, id, d) == coll \cup {d}

\* an update that appends the new shows to the stored ones
merge_one(coll, id, d) ==
    IF Matching(coll, id) = {}
      THEN coll \cup {d}
      ELSE LET m == CHOOSE x \in Matching(coll, id) : TRUE
           IN  (coll \ {m}) \cup {[d EXCEPT !.shows = m.shows \o d.shows]}

\* collection.replace_one({"_id": id}, doc, upsert=True), applied
replace_one(coll, id, d) ==
    IF Matching(coll, id) = {}
      THEN coll \cup {d}
      ELSE (coll \ {CHOOSE m \in Matching(coll, id) : TRUE}) \cup {d}

\* a failing call that has written the document all the same
replace_one_applied(coll, id, d) == (coll \ Matching(coll, id)) \cup {d}

\* collection.replace_one raising: the storage engine applies nothing
replace_one_failed(coll, id, d) == coll

Idx(key, dir) == [key |-> key, dir |-> dir]

\* the create_index calls of create_indexes, in program order
IndexOrder ==
    <<Idx("date", -1), Idx("last_updated", -1), Idx("synced_at", -1),
      Idx("shows.movie_id", 1), Idx("shows.movie_name", 1),
      Idx("shows.venue", 1), Idx("shows.show_date", -1),
      Idx("shows.occupancy_percent", -1), Idx("shows.gross", -1)>>

\* a try block around each single call: the next call follows a failure
next_index_continue(k, ok) == k + 1

\* create_indexes: position of the next create_index call after call k;
\* an exception ends the try block, Len(IndexOrder) + 1 stands for its end
next_index(k, ok) == IF ok THEN k + 1 ELSE Len(IndexOrder) + 1

\* a result that an index failure turns into failure
sync_all_result_strict(succ, indexFailed) ==
    IF indexFailed THEN "False" ELSE succ

\* sync_all: "return success", whatever create_indexes did
sync_all_result(succ, indexFailed) == succ

NoClient == [state |-> "none", closes |-> 0]

\* MongoClient(MONGODB_URI)
connect(cl) == [state |-> "open", closes |-> cl.closes]

\* NepalMongoDBSync.close
close(cl) == [state |-> "closed", closes |-> cl.closes + 1]

\* a close placed in the try body only
main_close_on_return(path, cl) == IF path = "return" THEN close(cl) ELSE cl

\* the finally block of main, reached from the try body ("return") and
\* from the except handler ("except") alike
main_finally(path, cl) == close(cl)

\* sys.exit status of main
exit_status(path, result) == IF path = "return" /\ result = "True" THEN 0 ELSE 1

\* ------------------------------------------------------------------ inputs
D12 == Str(<<"1", "-", "2">>)
D12b == Str(<<"1", "2">>)
D13 == Str(<<"1", "-", "3">>)

NumVal(pat, k) ==
    LET v == CASE k = "seats" -> IntV(100)
               [] k = "sold" -> IntV(40)
               [] k = "reserved" -> IntV(5)
               [] k = "available" -> IntV(55)
               [] k = "gross" -> IntV(900)
               [] k = "occupancy_percent" -> IntV(45)
    IN  CASE pat = "val" -> v
          [] pat = "zero" -> IntV(0)
          [] pat = "missing" -> Missing
          [] pat = "null" -> PyNone
          [] pat = "mixA" -> IF k \in {"seats", "available"} THEN Missing
                             ELSE IF k \in {"sold", "gross"} THEN PyNone
                             ELSE v
          [] pat = "mixB" -> IF k \in {"reserved", "occupancy_percent"}
                               THEN Missing
                             ELSE IF k \in {"seats", "available"} THEN PyNone
                             ELSE v

MkShow(sid, mid, pat, err, skip) ==
    [k \in ShowKeys |->
        CASE k = "show_id" -> Str(<<sid>>)
          [] k = "movie_id" -> mid
          [] k = "movie_name" -> IF mid.kind = "str" THEN Str(<<"M">> \o mid.s)
                                 ELSE Missing
          [] k = "venue" -> Str(<<"v">>)
          [] k = "theatre" -> PyNone
          [] k = "date" -> D12
          [] k = "time" -> Missing
          [] k = "error" -> err
          [] k = "skipped" -> skip
          [] OTHER -> NumVal(pat, k)]

Obj(f) == [isobj |-> TRUE, f |-> f]
NonObj == [isobj |-> FALSE, f |-> EmptyShow]

S1 == Obj(MkShow("1", Str(<<"a">>), "val", Missing, Missing))
S2 == Obj(MkShow("2", Str(<<"a">>), "missing", PyNone, PyFalse))
S3 == Obj(MkShow("3", Str(<<"b">>), "mixA", Str(<<"e">>), PyTrue))
S4 == Obj(MkShow("4", Missing, "mixB", Str(<<>>), Missing))
S5 == Obj(MkShow("5", PyNone, "null", Missing, PyTrue))
S6 == Obj(MkShow("6", Str(<<>>), "zero", Missing, Missing))

ShowEntries == {S1, S2, S3, S4, S5, S6, NonObj}

SeqsUpTo(S, n) == UNION {[1..k -> S] : k \in 0..n}

List(items) == [kind |-> "list", items |-> items]

Object(date, lastUpdated, shows) ==
    [top |-> "object", extra |-> FALSE, date |-> date,
     lastUpdated |-> lastUpdated, shows |-> shows]

Ok(data) == [status |-> "ok", data |-> data]
Broken(status) == [status |-> status, data |-> NoData]

Stamp(date) == IF date = D13 THEN 3 ELSE 2

OneFile(stamp, content) ==
    [exists |-> TRUE,
     entries |-> {[stamp |-> stamp, detailed |-> TRUE, content |-> content]}]

Env(uri, dir) == [uri |-> uri, dir |-> dir]

NoDir == [exists |-> FALSE, entries |-> {}]

NoUri == Env(FALSE, NoDir)

\* snapshots of every shape of shows, for the transformation
RichInputs ==
    {Env(TRUE, OneFile(Stamp(d), Ok(Object(d, Str(<<"u">>), List(l))))) :
        d \in {D12, D13}, l \in SeqsUpTo(ShowEntries, MaxShows)}

SnapA == Ok(Object(D12, Str(<<"u">>), List(<<S1>>)))
SnapB == Ok(Object(D12, Missing, List(<<S3, S2>>)))
SnapB2 == Ok(Object(D12b, PyNone, List(<<S2, S5>>)))
SnapC == Ok(Object(D13, Str(<<"u">>), List(<<S1>>)))

SmallContents ==
    {SnapA, SnapB, SnapB2, SnapC,
     Ok(Object(D12, Str(<<"u">>), List(<<>>))),
     Ok(Object(D12, Str(<<"u">>), [kind |-> "missing", items |-> <<>>])),
     Ok(Object(D12, Str(<<"u">>), [kind |-> "null", items |-> <<>>])),
     Ok(Object(D12, Str(<<"u">>), [kind |-> "number", items |-> <<>>])),
     Ok(Object(D12, Str(<<"u">>), List(<<S1, NonObj>>))),
     Ok(Object(Str(<<>>), Str(<<"u">>), List(<<S1>>))),
     Ok(Object(Str(<<"-">>), Str(<<"u">>), List(<<S1>>))),
     Ok(Object(Missing, Str(<<"u">>), List(<<S1>>))),
     Ok(Object(PyNone, Str(<<"u">>), List(<<S1>>))),
     Ok(Object(IntV(12), Str(<<"u">>), List(<<S1>>))),
     Ok(Object(Missing, Missing, [kind |-> "missing", items |-> <<>>])),
     Ok([NoData EXCEPT !.top = "array"]),
     Ok(NoData),
     Broken("enoent"), Broken("badjson"), Broken("undecodable"),
     Broken("denied")}

SmallDirs ==
    {OneFile(2, c) : c \in SmallContents}
    \cup {NoDir,
          [exists |-> TRUE, entries |-> {}],
          [exists |-> TRUE,
           entries |-> {[stamp |-> 3, detailed |-> FALSE, content |-> SnapA]}],
          [exists |-> TRUE,
           entries |-> {[stamp |-> 1, detailed |-> TRUE, content |-> SnapA],
                        [stamp |-> 2, detailed |-> TRUE, content |-> SnapC],
                        [stamp |-> 3, detailed |-> FALSE,
                         content |-> SnapB]}]}

SmallInputs == {Env(TRUE, d) : d \in SmallDirs} \cup {NoUri}

\* ------------------------------------------------------------------- state
InitRest ==
    /\ pc = [p \in Writers |-> "start"]
    /\ client = [p \in Writers |-> NoClient]
    /\ detailed_file = [p \in Writers |-> NoFile]
    /\ doc = [p \in Writers |-> NoDoc]
    /\ success = [p \in Writers |-> "unset"]
    /\ outcome = [p \in Writers |-> "running"]
    /\ exitCode = [p \in Writers |-> -1]
    /\ persisted = [p \in Writers |-> FALSE]
    /\ idxNext = [p \in Writers |-> 1]
    /\ idxAttempts = [p \in Writers |-> <<>>]
    /\ idxFailedAt = [p \in Writers |-> 0]
    /\ collection = {}
    /\ indexes = {}
    /\ applied = <<>>
    /\ clock = 1

Init ==
    /\ input \in [Writers -> SmallInputs]
    /\ InitRest

InitTransform ==
    /\ input \in {[p \in Writers |-> IF p = 1 THEN i ELSE NoUri] :
                    i \in RichInputs}
    /\ InitRest

\* NepalMongoDBSync.__init__, and the ValueError of an unset MONGODB_URI,
\* which nothing catches
Construct(p) ==
    /\ pc[p] = "start"
    /\ IF input[p].uri
         THEN /\ client' = [client EXCEPT ![p] = connect(client[p])]
              /\ pc' = [pc EXCEPT ![p] = "locate"]
              /\ UNCHANGED exitCode
         ELSE /\ pc' = [pc EXCEPT ![p] = "exited"]
              /\ exitCode' = [exitCode EXCEPT ![p] = 1]
              /\ UNCHANGED client
    /\ UNCHANGED <<input, detailed_file, doc, success, outcome, persisted,
                   idxNext, idxAttempts, idxFailedAt, collection, indexes,
                   applied, clock>>

\* sync_all, its call of find_latest_detailed_file and the early return
FindLatest(p) ==
    /\ pc[p] = "locate"
    /\ LET f == find_latest_detailed_file(input[p].dir)
       IN  /\ detailed_file' = [detailed_file EXCEPT ![p] = f]
           /\ IF f = NoFile
                THEN /\ outcome' = [outcome EXCEPT ![p] = "False"]
                     /\ pc' = [pc EXCEPT ![p] = "return"]
                ELSE /\ pc' = [pc EXCEPT ![p] = "sync"]
                     /\ UNCHANGED outcome
    /\ UNCHANGED <<input, client, doc, success, exitCode, persisted, idxNext,
                   idxAttempts, idxFailedAt, collection, indexes, applied,
                   clock>>

\* sync_detailed from load_json to the finished doc
SyncDetailed(p) ==
    /\ pc[p] = "sync"
    /\ LET r == sync_detailed_build(
                    ContentOf(input[p].dir, detailed_file[p]), clock)
       IN  /\ clock' = clock + r.ticks
           /\ doc' = [doc EXCEPT ![p] = r.doc]
           /\ CASE r.result = "doc" ->
                     /\ pc' = [pc EXCEPT ![p] = "persist"]
                     /\ UNCHANGED <<success, outcome>>
                [] r.result = "False" ->
                     /\ success' = [success EXCEPT ![p] = "False"]
                     /\ outcome' = [outcome EXCEPT ![p] =
                                      sync_all_result("False", FALSE)]
                     /\ pc' = [pc EXCEPT ![p] = "return"]
                [] r.result = "raise" ->
                     /\ outcome' = [outcome EXCEPT ![p] = "raised"]
                     /\ pc' = [pc EXCEPT ![p] = "except"]
                     /\ UNCHANGED success
    /\ UNCHANGED <<input, client, detailed_file, exitCode, persisted, idxNext,
                   idxAttempts, idxFailedAt, collection, indexes, applied>>

\* the try block around collection.replace_one
ReplaceOne(p) ==
    /\ pc[p] = "persist"
    /\ \E ok \in BOOLEAN :
         IF ok
           THEN /\ collection' = replace_one(collection, doc[p].id, doc[p])
                /\ applied' = Append(applied, p)
                /\ persisted' = [persisted EXCEPT ![p] = TRUE]
                /\ success' = [success EXCEPT ![p] = "True"]
                /\ pc' = [pc EXCEPT ![p] = "index"]
                /\ UNCHANGED outcome
           ELSE /\ collection' =
                      replace_one_failed(collection, doc[p].id, doc[p])
                /\ success' = [success EXCEPT ![p] = "False"]
                /\ outcome' = [outcome EXCEPT ![p] =
                                 sync_all_result("False", FALSE)]
                /\ pc' = [pc EXCEPT ![p] = "return"]
                /\ UNCHANGED <<applied, persisted>>
    /\ UNCHANGED <<input, client, detailed_file, doc, exitCode, idxNext,
                   idxAttempts, idxFailedAt, indexes, clock>>

\* one create_index call of create_indexes; after the last call, or after
\* the exception handler, sync_all returns
CreateIndex(p) ==
    /\ pc[p] = "index"
    /\ \E ok \in BOOLEAN :
         LET k == idxNext[p]
             n == next_index(k, ok)
         IN  /\ idxAttempts' =
                   [idxAttempts EXCEPT ![p] = Append(@, IndexOrder[k])]
             /\ indexes' = IF ok THEN indexes \cup {IndexOrder[k]} ELSE indexes
             /\ idxFailedAt' =
                   [idxFailedAt EXCEPT ![p] = IF ok THEN @ ELSE k]
             /\ idxNext' = [idxNext EXCEPT ![p] = n]
             /\ IF n > Len(IndexOrder)
                  THEN /\ outcome' =
                            [outcome EXCEPT ![p] =
                               sync_all_result(success[p],
                                               idxFailedAt'[p] # 0)]
                       /\ pc' = [pc EXCEPT ![p] = "return"]
                  ELSE UNCHANGED <<outcome, pc>>
    /\ UNCHANGED <<input, client, detailed_file, doc, success, exitCode,
                   persisted, collection, applied, clock>>

\* main after sync_all returned: sys.exit(0 or 1), then the finally block
MainReturn(p) ==
    /\ pc[p] = "return"
    /\ exitCode' = [exitCode EXCEPT ![p] = exit_status("return", outcome[p])]
    /\ client' = [client EXCEPT ![p] = main_finally("return", client[p])]
    /\ pc' = [pc EXCEPT ![p] = "exited"]
    /\ UNCHANGED <<input, detailed_file, doc, success, outcome, persisted,
                   idxNext, idxAttempts, idxFailedAt, collection, indexes,
                   applied, clock>>

\* main after an exception left sync_all: the except handler, sys.exit(1),
\* then the finally block
MainExcept(p) ==
    /\ pc[p] = "except"
    /\ exitCode' = [exitCode EXCEPT ![p] = exit_status("except", outcome[p])]
    /\ client' = [client EXCEPT ![p] = main_finally("except", client[p])]
    /\ pc' = [pc EXCEPT ![p] = "exited"]
    /\ UNCHANGED <<input, detailed_file, doc, success, outcome, persisted,
                   idxNext, idxAttempts, idxFailedAt, collection, indexes,
                   applied, clock>>

Next ==
    \E p \in Writers :
        \/ Construct(p)
        \/ FindLatest(p)
        \/ SyncDetailed(p)
        \/ ReplaceOne(p)
        \/ CreateIndex(p)
        \/ MainReturn(p)
        \/ MainExcept(p)

Spec == Init /\ [][Next]_vars

SpecTransform == InitTransform /\ [][Next]_vars

TypeOK ==
    /\ \A p \in Writers :
         /\ pc[p] \in {"start", "locate", "sync", "persist", "index",
                       "return", "except", "exited"}
         /\ outcome[p] \in {"running", "True", "False", "raised"}
         /\ success[p] \in {"unset", "True", "False"}
         /\ client[p].state \in {"none", "open", "closed"}

\* ------------------------------------------------------------------ claims
\* the shows array of the snapshot writer p synced
InputShows(p) ==
    ContentOf(input[p].dir, detailed_file[p]).data.shows.items

Built(p) == doc[p] # NoDoc

\* the writers whose replace_one was applied to id, in order of application
AppliedTo(id) == SelectSeq(applied, LAMBDA p : doc[p].id = id)

AppliedIds == {doc[applied[i]].id : i \in 1..Len(applied)}

LastApplied(id) == AppliedTo(id)[Len(AppliedTo(id))]

ShowIds(shows) == {shows[i].show_id : i \in 1..Len(shows)}

\* C1: the collection never holds two documents with one id, and once two
\* runs for the same date have been applied the document at that id has
\* exactly the shows of the second run: none of the first run's remains.
C1_OneDocumentLatestShows ==
    /\ \A d1, d2 \in collection : d1.id = d2.id => d1 = d2
    /\ \A id \in AppliedIds :
         /\ Cardinality(Matching(collection, id)) = 1
         /\ \A d \in Matching(collection, id) :
              /\ d.shows = doc[LastApplied(id)].shows
              /\ Len(d.shows) = Len(InputShows(LastApplied(id)))
              /\ ShowIds(d.shows) =
                   {Get(InputShows(LastApplied(id))[i].f, "show_id", PyNone) :
                      i \in 1..Len(InputShows(LastApplied(id)))}

C1_Witness ==
    /\ Len(applied) = 2
    /\ doc[applied[1]].id = doc[applied[2]].id
    /\ ShowIds(doc[applied[1]].shows) \cap ShowIds(doc[applied[2]].shows) = {}
    /\ pc[applied[1]] = "exited"
    /\ pc[applied[2]] = "exited"
    /\ Cardinality(collection) = 1

Range(s) == {s[i] : i \in 1..Len(s)}

\* C2: a run that ends in failure has changed nothing in the collection:
\* the step in which sync_all turns to False leaves the collection as it
\* is, the run has had no replace_one applied, and the collection changes
\* only in a step that applies a replace_one.
C2_FailureLeavesCollection ==
    [][/\ \A p \in Writers :
            (outcome[p] = "running" /\ outcome'[p] = "False")
               => /\ collection' = collection
                  /\ ~persisted'[p]
                  /\ p \notin Range(applied')
       /\ collection' # collection => Len(applied') = Len(applied) + 1]_vars

C2_Witness ==
    \E p, q \in Writers :
        /\ p # q
        /\ pc[p] = "exited"
        /\ outcome[p] = "False"
        /\ detailed_file[p] # NoFile
        /\ ContentOf(input[p].dir, detailed_file[p]).data.date = D12
        /\ persisted[q]
        /\ doc[q].date = format_date_code(D12.s)
        /\ collection = {doc[q]}

\* C3: sync_all returns True exactly when replace_one completed in that
\* run, create_index is called only after that, and a failed index call
\* leaves the result True.
C3_SuccessIffPersisted ==
    \A p \in Writers :
        /\ outcome[p] \in {"True", "False"}
              => (outcome[p] = "True" <=> persisted[p])
        /\ idxAttempts[p] # <<>> => persisted[p]
        /\ (idxFailedAt[p] # 0 /\ outcome[p] # "running")
              => outcome[p] = "True"

C3_Witness ==
    \E p \in Writers :
        /\ pc[p] = "exited"
        /\ outcome[p] = "True"
        /\ idxFailedAt[p] = 1
        /\ exitCode[p] = 0

\* C4: each numeric field of a ShowRecord is 0 when the field is missing
\* from the input show or null in it, and the input value otherwise.
C4_NumericDefaultZero ==
    \A p \in Writers :
        Built(p) =>
            \A i \in 1..Len(doc[p].shows) :
                \A k \in NumericFields :
                    doc[p].shows[i][k] =
                        IF InputShows(p)[i].f[k] \in {Missing, PyNone}
                          THEN IntV(0)
                          ELSE InputShows(p)[i].f[k]

\* C5: no exception leaves sync_all: every run that got as far as sync_all
\* ends with a boolean result.
C5_NoExceptionEscapes ==
    \A p \in Writers : outcome[p] # "raised"

\* C6: a writer that acquired the connection has closed it exactly once by
\* the time the process has ended, and never more than once before.
C6_ClosedExactlyOnce ==
    \A p \in Writers :
        /\ client[p].closes <= 1
        /\ client[p].state = "closed" <=> client[p].closes = 1
        /\ (pc[p] = "exited" /\ input[p].uri)
              => (client[p].state = "closed" /\ client[p].closes = 1)
        /\ ~input[p].uri => client[p] = NoClient

C6_Witness ==
    \E p \in Writers :
        /\ pc[p] = "exited"
        /\ outcome[p] = "raised"
        /\ client[p].state = "closed"
        /\ client[p].closes = 1

\* the ShowRecord fields that identify the input show they were built from
IsRecordOf(rec, show) ==
    /\ rec["show_id"] = Get(show, "show_id", PyNone)
    /\ rec["movie_id"] = Get(show, "movie_id", PyNone)
    /\ rec["movie_name"] = Get(show, "movie_name", PyNone)
    /\ rec["venue"] = Get(show, "venue", PyNone)
    /\ rec["theatre"] = Get(show, "theatre", PyNone)
    /\ rec["show_date"] = Get(show, "date", PyNone)
    /\ rec["show_time"] = Get(show, "time", PyNone)
    /\ \A k \in NumericFields : show[k] # Missing => rec[k] = show[k]

\* C7: the document built from N >= 1 shows has total_shows = N and N
\* records, the i-th one built from the i-th input show, and that is the
\* document the collection holds once it is persisted.
C7_ShowsInOrder ==
    \A p \in Writers :
        Built(p) =>
            /\ Len(InputShows(p)) >= 1
            /\ doc[p].total_shows = Len(InputShows(p))
            /\ Len(doc[p].shows) = Len(InputShows(p))
            /\ \A i \in 1..Len(InputShows(p)) :
                 IsRecordOf(doc[p].shows[i], InputShows(p)[i].f)
            /\ (persisted[p] /\ LastApplied(doc[p].id) = p)
                  => doc[p] \in collection

C7_Witness ==
    \E p \in Writers :
        /\ persisted[p]
        /\ doc[p] \in collection
        /\ Len(doc[p].shows) = MaxShows
        /\ doc[p].shows[1]["show_id"] = Str(<<"3">>)
        /\ doc[p].shows[2]["show_id"] = Str(<<"1">>)

NonEmptyId(v) == v.kind = "str" /\ Len(v.s) > 0

\* C8: total_movies is the number of distinct non-empty movie_id values of
\* the input shows.
C8_TotalMoviesDistinct ==
    \A p \in Writers :
        Built(p) =>
            doc[p].total_movies =
                Cardinality({v \in {InputShows(p)[i].f["movie_id"] :
                                      i \in 1..Len(InputShows(p))} :
                               NonEmptyId(v)})

C8_Witness ==
    \E p \in Writers :
        /\ persisted[p]
        /\ doc[p] \in collection
        /\ doc[p].total_movies = 1
        /\ \E i, j, k \in 1..Len(InputShows(p)) :
             /\ i # j
             /\ InputShows(p)[i].f["movie_id"] = Str(<<"a">>)
             /\ InputShows(p)[j].f["movie_id"] = Str(<<"a">>)
             /\ InputShows(p)[k].f["movie_id"] \in {Missing, PyNone, Str(<<>>)}

\* C9: under every interleaving of the writers the collection holds, for
\* each id written, the whole document of the writer whose replace_one was
\* applied last to that id, and nothing else.
C9_LastWriterWins ==
    collection = {doc[LastApplied(id)] : id \in AppliedIds}

C9_Witness ==
    /\ Len(applied) = 2
    /\ doc[applied[1]].id = doc[applied[2]].id
    /\ doc[applied[1]].shows # doc[applied[2]].shows
    /\ doc[applied[2]].synced_at < doc[applied[1]].synced_at
    /\ \A p \in Writers : pc[p] = "exited"

ClaimedIndexKeys ==
    <<"date", "last_updated", "synced_at", "shows.movie_id",
      "shows.movie_name", "shows.venue", "shows.show_date",
      "shows.occupancy_percent", "shows.gross">>

\* C10: the create_index calls of one create_indexes follow the fixed
\* order; when the k-th fails, the indexes created before it remain,
\* create_indexes returns normally and no later index is attempted.
C10_IndexOrderStopsAtFailure ==
    \A p \in Writers :
        /\ Len(idxAttempts[p]) <= Len(ClaimedIndexKeys)
        /\ \A i \in 1..Len(idxAttempts[p]) :
             idxAttempts[p][i].key = ClaimedIndexKeys[i]
        /\ idxFailedAt[p] # 0
              => /\ Len(idxAttempts[p]) = idxFailedAt[p]
                 /\ pc[p] \in {"return", "exited"}
                 /\ outcome[p] = "True"
                 /\ \A j \in 1..(idxFailedAt[p] - 1) :
                      \E x \in indexes : x.key = ClaimedIndexKeys[j]

C10_Witness ==
    \E p \in Writers :
        /\ idxFailedAt[p] = 4
        /\ pc[p] = "exited"
        /\ Cardinality(indexes) = 3

====
